---- MODULE Spec2Model ----
(***************************************************************************)
(* Model of lista_compras_str.py: a Streamlit shopping list over SQLite.   *)
(*                                                                         *)
(* Text values are sequences of one-character strings, so that strip(),    *)
(* lower(), str.contains(), str.replace() and float() are computed rather  *)
(* than assumed.  Money is fixed point: a price is a number of hundredths, *)
(* a discount rate a number of hundredths, and every subtotal and total a  *)
(* number of ten-thousandths (price * (100 - rate)), which keeps           *)
(* cantidad * precio * (1 - descuento) exact.                              *)
(***************************************************************************)
EXTENDS Integers, Sequences, FiniteSets, TLC

\* ------------------------------------------------------------------ bounds
MaxItems == 2
MaxCompras == 2
MaxDia == 0
MaxCantidadEval == 6

\* ------------------------------------------------------------- text values
\* Python's None for a nullable TEXT column (no text value has a
\* multi-character element).
None == <<"None">>

DigitVal ==
    ("0" :> 0) @@ ("1" :> 1) @@ ("2" :> 2) @@ ("3" :> 3) @@ ("4" :> 4) @@
    ("5" :> 5) @@ ("6" :> 6) @@ ("7" :> 7) @@ ("8" :> 8) @@ ("9" :> 9)

RECURSIVE LStrip(_)
LStrip(s) ==
    IF s # <<>> /\ Head(s) = " " THEN LStrip(Tail(s)) ELSE s

RECURSIVE RStrip(_)
RStrip(s) ==
    IF s # <<>> /\ s[Len(s)] = " " THEN RStrip(SubSeq(s, 1, Len(s) - 1)) ELSE s

\* str.strip()
Strip(s) == RStrip(LStrip(s))

LowerChar(c) ==
    CASE c = "A" -> "a"
      [] c = "B" -> "b"
      [] c = "M" -> "m"
      [] c = "X" -> "x"
      [] OTHER -> c

\* str.lower()
Lower(s) == [i \in 1..Len(s) |-> LowerChar(s[i])]

\* Series.str.contains(sub) for a pattern of plain letters
Contains(s, sub) ==
    \E i \in 1..(Len(s) - Len(sub) + 1) : SubSeq(s, i, i + Len(sub) - 1) = sub

\* str.replace(",", ".")
ReplaceComma(s) == [i \in 1..Len(s) |-> IF s[i] = "," THEN "." ELSE s[i]]

IsDigits(s) == \A i \in 1..Len(s) : s[i] \in DOMAIN DigitVal

RECURSIVE DigitsValue(_)
DigitsValue(s) ==
    IF s = <<>> THEN 0
    ELSE DigitsValue(SubSeq(s, 1, Len(s) - 1)) * 10 + DigitVal[s[Len(s)]]

IndexOf(s, c) ==
    IF \E i \in 1..Len(s) : s[i] = c
    THEN CHOOSE i \in 1..Len(s) : s[i] = c /\ \A j \in 1..(i - 1) : s[j] # c
    ELSE 0

\* float(s), in hundredths: optional sign, digits, optional point and up to
\* two fraction digits; anything else raises ValueError (ok = FALSE).
ParseFloat(s) ==
    LET t == Strip(s)
        neg == t # <<>> /\ Head(t) = "-"
        pos == t # <<>> /\ Head(t) = "+"
        u == IF neg \/ pos THEN Tail(t) ELSE t
        k == IndexOf(u, ".")
        ip == IF k = 0 THEN u ELSE SubSeq(u, 1, k - 1)
        fp == IF k = 0 THEN <<>> ELSE SubSeq(u, k + 1, Len(u))
        ok == /\ IsDigits(ip)
              /\ IsDigits(fp)
              /\ Len(ip) + Len(fp) > 0
              /\ Len(fp) <= 2
        frac == IF Len(fp) = 1 THEN DigitsValue(fp) * 10 ELSE DigitsValue(fp)
        mag == DigitsValue(ip) * 100 + frac
    IN  IF ok THEN [ok |-> TRUE, val |-> IF neg THEN 0 - mag ELSE mag]
        ELSE [ok |-> FALSE, val |-> 0]

\* Python truthiness of an optional text: None and "" are falsy.
Truthy(s) == s # None /\ s # <<>>

\* ----------------------------------------------------------------- pricing
\* calcular_subtotal paying for the floor of cantidad / 2 under "2x1"
calcular_subtotal_piso(cantidad, precio, oferta) ==
    IF ~Truthy(oferta) THEN cantidad * precio * 100
    ELSE LET o == Strip(oferta)
         IN  IF o = <<"2", "x", "1">>
             THEN (cantidad \div 2) * precio * 100
             ELSE LET d == ParseFloat(o)
                  IN  IF d.ok THEN cantidad * precio * (100 - d.val)
                      ELSE cantidad * precio * 100

calcular_subtotal(cantidad, precio, oferta) ==
    IF ~Truthy(oferta) THEN cantidad * precio * 100
    ELSE LET o == Strip(oferta)
         IN  IF o = <<"2", "x", "1">>
             THEN ((cantidad \div 2) + (cantidad % 2)) * precio * 100
             ELSE LET d == ParseFloat(o)
                  IN  IF d.ok THEN cantidad * precio * (100 - d.val)
                      ELSE cantidad * precio * 100

RECURSIVE SumSubtotal(_)
SumSubtotal(rows) ==
    IF rows = {} THEN 0
    ELSE LET r == CHOOSE x \in rows : TRUE
         IN  calcular_subtotal(r.quantity, r.price, r.offer)
             + SumSubtotal(rows \ {r})

\* calcular_totales(df)[1]: the sum of the Subtotal column
calcular_totales(df) == SumSubtotal(df)

\* ------------------------------------------------------------------- state
VARIABLES
    shopping_list,      \* rows of table shopping_list
    shopping_history,   \* rows of table shopping_history
    purchase_details,   \* rows of table purchase_details
    seqLista,           \* sqlite_sequence of shopping_list (AUTOINCREMENT)
    seqHist,            \* sqlite_sequence of shopping_history
    seqDet,             \* sqlite_sequence of purchase_details
    cacheLista,         \* st.cache_data entry of obtener_lista
    cacheHist,          \* st.cache_data entry of obtener_historial
    msgs,               \* st.error/st.warning/st.success calls of the last run
    rerun,              \* page that st.rerun() asked to run again, or "no"
    hoy,                \* the latest day datetime.now() has reported
    evalArgs,           \* arguments of a stand-alone calcular_subtotal call
    evalRet             \* its result

vars ==
    <<shopping_list, shopping_history, purchase_details, seqLista, seqHist,
      seqDet, cacheLista, cacheHist, msgs, rerun, hoy, evalArgs,
      evalRet>>

db == <<shopping_list, shopping_history, purchase_details>>

seqs == <<seqLista, seqHist, seqDet>>

eval == <<evalArgs, evalRet>>

\* ------------------------------------------------------------ user inputs
\* What the form is submitted with: nombre, cantidad, precio_str, oferta
Formulario(n, c, p, o) ==
    [nombre |-> n, cantidad |-> c, precio_str |-> p, oferta |-> o]

FormInputs ==
    { Formulario(<<>>, 1, <<"2", ",", "5">>, <<>>),
      Formulario(<<" ">>, 1, <<"2", ",", "5">>, <<>>),
      Formulario(<<"a">>, 1, <<"-", "1">>, <<>>),
      Formulario(<<"a">>, 1, <<"2", ",", "5">>, <<>>),
      Formulario(<<"a", " ">>, 1, <<"2", ",", "5">>, <<>>),
      Formulario(<<"B">>, 2, <<"2", ",", "5">>, <<" ", "2", "x", "1">>) }

\* Forms whose offer is a discount rate: 0.10, 1, and 1.5 (above 1)
OfertaInputs ==
    { Formulario(<<"a">>, 1, <<"2", ",", "5">>, <<"0", ".", "1", "0">>),
      Formulario(<<"B">>, 2, <<"2", ",", "5">>, <<"1">>),
      Formulario(<<"c">>, 1, <<"2", ",", "5">>, <<"1", ".", "5">>) }

ComercioInputs ==
    { <<>>, <<" ">>, <<" ", "m">> }

BusquedaInputs ==
    { <<>>, <<"b">>, <<"z">> }

\* ------------------------------------------------------------ cached reads
CacheListaVacio == [valid |-> FALSE, df |-> {}, msgs |-> {}]

CacheHistVacio == [valid |-> FALSE, df |-> <<>>, msgs |-> {}]

\* What a cached read meets: whether the entry has outlived ttl=60 (checked
\* when the entry is looked up) and whether a query of the database works.
Lectura(c, o) == [caducada |-> c, ok |-> o]

Lecturas(cache) ==
    IF cache.valid
    THEN {Lectura(FALSE, TRUE), Lectura(TRUE, TRUE), Lectura(TRUE, FALSE)}
    ELSE {Lectura(FALSE, TRUE), Lectura(FALSE, FALSE)}

\* A later read of the same run: an entry stored by this run is still fresh.
SegundasLecturas(cache, lec) ==
    IF cache.valid /\ ~lec.caducada
    THEN {Lectura(FALSE, TRUE), Lectura(TRUE, TRUE), Lectura(TRUE, FALSE)}
    ELSE {Lectura(FALSE, TRUE)}

\* obtener_lista() behind @st.cache_data(ttl=60): a hit returns the entry and
\* replays the st.error stored with it; a miss runs the body, whose result
\* (the rows, or the empty frame of the except branch) is returned and stored.
obtener_lista(cache, lec) ==
    IF cache.valid /\ ~lec.caducada
    THEN [df |-> cache.df, cache |-> cache, msgs |-> cache.msgs]
    ELSE IF lec.ok
    THEN [df |-> shopping_list,
          cache |-> [valid |-> TRUE, df |-> shopping_list, msgs |-> {}],
          msgs |-> {}]
    ELSE [df |-> {},
          cache |-> [valid |-> TRUE, df |-> {},
                     msgs |-> {"error_cargar_lista"}],
          msgs |-> {"error_cargar_lista"}]

\* ORDER BY date DESC alone, rows of one date coming out in rowid order
Antes_sinDesempate(a, b) ==
    a.date > b.date \/ (a.date = b.date /\ a.id < b.id)

\* ORDER BY date DESC, id DESC
Antes(a, b) == a.date > b.date \/ (a.date = b.date /\ a.id > b.id)

RECURSIVE OrdenarHistorial(_)
OrdenarHistorial(rows) ==
    IF rows = {} THEN <<>>
    ELSE LET h == CHOOSE x \in rows : \A y \in rows \ {x} : Antes(x, y)
         IN  <<h>> \o OrdenarHistorial(rows \ {h})

obtener_historial(cache, lec) ==
    IF cache.valid /\ ~lec.caducada
    THEN [df |-> cache.df, cache |-> cache, msgs |-> cache.msgs]
    ELSE IF lec.ok
    THEN LET df == OrdenarHistorial(shopping_history)
         IN  [df |-> df,
              cache |-> [valid |-> TRUE, df |-> df, msgs |-> {}],
              msgs |-> {}]
    ELSE [df |-> <<>>,
          cache |-> [valid |-> TRUE, df |-> <<>>,
                     msgs |-> {"error_cargar_historial"}],
          msgs |-> {"error_cargar_historial"}]

obtener_detalle_compra(purchase_id, ok) ==
    IF ok THEN {d \in purchase_details : d.purchase_id = purchase_id} ELSE {}

\* ------------------------------------------------- obtener_resumen_gastos
\* df_hist["total"].sum()
RECURSIVE SumTotal(_)
SumTotal(df_hist) ==
    IF df_hist = <<>> THEN 0
    ELSE Head(df_hist).total + SumTotal(Tail(df_hist))

\* .round(2) of an amount in ten-thousandths: to the nearest hundredth, a tie
\* going to the even one
Round2(x) ==
    LET q == x \div 100
        r == x % 100
    IN  100 * (IF r > 50 \/ (r = 50 /\ q % 2 = 1) THEN q + 1 ELSE q)

\* df_hist.groupby("store")["total"].sum().round(2)
GastosPorComercio(df_hist) ==
    LET filas == {df_hist[i] : i \in DOMAIN df_hist}
    IN  [c \in {h.store : h \in filas} |->
            Round2(SumTotal(OrdenarHistorial({h \in filas : h.store = c})))]

\* The summary, or none = TRUE for the None an empty history returns; promedio
\* is the quotient total_gastado / num_compras, kept as its two terms.
obtener_resumen_gastos(df_hist) ==
    IF df_hist = <<>>
    THEN [none |-> TRUE]
    ELSE [none |-> FALSE,
          total_gastado |-> SumTotal(df_hist),
          num_compras |-> Len(df_hist),
          promedio |-> IF Len(df_hist) > 0
                       THEN [num |-> SumTotal(df_hist), den |-> Len(df_hist)]
                       ELSE [num |-> 0, den |-> 1],
          gastos_por_comercio |-> GastosPorComercio(df_hist)]

\* ------------------------------------------------------------------ writes
\* Each write returns the table it leaves, whether st.cache_data.clear()
\* ran, and the error it reported; a failed statement or commit leaves the
\* table as it was (the connection rolls back).
agregar_producto(nombre, cantidad, precio, oferta, ok) ==
    IF ok
    THEN [lista |-> shopping_list \cup
                    {[id |-> seqLista + 1,
                      name |-> Strip(nombre),
                      quantity |-> cantidad,
                      price |-> precio,
                      offer |-> IF Truthy(oferta) THEN Strip(oferta) ELSE None]},
          seq |-> seqLista + 1,
          clear |-> TRUE,
          msgs |-> {}]
    ELSE [lista |-> shopping_list, seq |-> seqLista, clear |-> FALSE,
          msgs |-> {"error_agregar"}]

modificar_producto(id_producto, nombre, cantidad, precio, oferta, ok) ==
    IF ok
    THEN [lista |-> {IF r.id = id_producto
                     THEN [id |-> r.id,
                           name |-> Strip(nombre),
                           quantity |-> cantidad,
                           price |-> precio,
                           offer |-> IF Truthy(oferta) THEN Strip(oferta)
                                     ELSE None]
                     ELSE r : r \in shopping_list},
          seq |-> seqLista,
          clear |-> TRUE,
          msgs |-> {}]
    ELSE [lista |-> shopping_list, seq |-> seqLista, clear |-> FALSE,
          msgs |-> {"error_modificar"}]

eliminar_producto(id_producto, ok) ==
    IF ok
    THEN [lista |-> {r \in shopping_list : r.id # id_producto},
          clear |-> TRUE,
          msgs |-> {}]
    ELSE [lista |-> shopping_list, clear |-> FALSE,
          msgs |-> {"error_eliminar"}]

borrar_lista(ok) ==
    IF ok THEN [lista |-> {}, clear |-> TRUE, msgs |-> {}]
    ELSE [lista |-> shopping_list, clear |-> FALSE,
          msgs |-> {"error_vaciar"}]

\* A write that forgets st.cache_data.clear()
TrasClear_nunca(clear, cache, vacio) == cache

\* st.cache_data.clear() drops every entry, of both cached functions
TrasClear(clear, cache, vacio) == IF clear THEN vacio ELSE cache

\* The loop of guardar_historial leaving the offer out of the copy
DetallesDe_sinOferta(productos, purchase_id) ==
    {[id |-> seqDet + Cardinality({q \in productos : q.id <= p.id}),
      purchase_id |-> purchase_id,
      name |-> p.name,
      quantity |-> p.quantity,
      price |-> p.price,
      offer |-> None] : p \in productos}

\* The rows the loop of guardar_historial inserts into purchase_details for
\* `productos`, in table order, under AUTOINCREMENT.
DetallesDe(productos, purchase_id) ==
    {[id |-> seqDet + Cardinality({q \in productos : q.id <= p.id}),
      purchase_id |-> purchase_id,
      name |-> p.name,
      quantity |-> p.quantity,
      price |-> p.price,
      offer |-> p.offer] : p \in productos}

\* An insert that replaces the rows of the table
InsertarDetalles_reemplaza(tabla, filas) == filas

\* INSERT INTO purchase_details
InsertarDetalles(tabla, filas) == tabla \cup filas

FallosTx == {"ninguno", "insert_history", "insert_details", "commit"}

\* guardar_historial(total, comercio).  `fecha` is what datetime.now()
\* reports; `fallo` is the statement of the transaction that raises (the
\* connection then rolls back and the except branch reports it); `lec` is
\* what the obtener_lista() of line 157 meets, `okBorrar` whether
\* borrar_lista's own transaction works.
guardar_historial(fecha, total, comercio, cache, lec, fallo, okBorrar) ==
    LET purchase_id == seqHist + 1
        compra == [id |-> purchase_id, date |-> fecha,
                   store |-> Strip(comercio), total |-> total]
        r == obtener_lista(cache, lec)
        productos == r.df
        b == borrar_lista(okBorrar)
    IN  IF fallo = "insert_history"
        THEN [lista |-> shopping_list, historial |-> shopping_history,
              detalles |-> purchase_details, seqHist |-> seqHist,
              seqDet |-> seqDet, cacheLista |-> cache, cacheHist |-> cacheHist,
              msgs |-> {"error_guardar_historial"}, rerun |-> "no"]
        ELSE IF fallo # "ninguno"
        THEN [lista |-> shopping_list, historial |-> shopping_history,
              detalles |-> purchase_details, seqHist |-> seqHist,
              seqDet |-> seqDet, cacheLista |-> r.cache,
              cacheHist |-> cacheHist,
              msgs |-> r.msgs \cup {"error_guardar_historial"},
              rerun |-> "no"]
        ELSE [lista |-> b.lista,
              historial |-> shopping_history \cup {compra},
              detalles |-> InsertarDetalles(purchase_details,
                                            DetallesDe(productos, purchase_id)),
              seqHist |-> purchase_id,
              seqDet |-> seqDet + Cardinality(productos),
              cacheLista |-> CacheListaVacio,
              cacheHist |-> CacheHistVacio,
              msgs |-> r.msgs \cup b.msgs \cup {"ok_guardar"},
              rerun |-> "lista"]

\* A wipe without its DELETE FROM purchase_details
limpiar_base_de_datos_sinDetalles(ok) ==
    IF ok
    THEN [lista |-> {}, historial |-> {}, detalles |-> purchase_details,
          clear |-> TRUE, msgs |-> {"ok_limpiar"}, rerun |-> "resumen"]
    ELSE [lista |-> shopping_list, historial |-> shopping_history,
          detalles |-> purchase_details, clear |-> FALSE,
          msgs |-> {"error_limpiar"}, rerun |-> "no"]

limpiar_base_de_datos(ok) ==
    IF ok
    THEN [lista |-> {}, historial |-> {}, detalles |-> {}, clear |-> TRUE,
          msgs |-> {"ok_limpiar"}, rerun |-> "resumen"]
    ELSE [lista |-> shopping_list, historial |-> shopping_history,
          detalles |-> purchase_details, clear |-> FALSE,
          msgs |-> {"error_limpiar"}, rerun |-> "no"]

\* --------------------------------------------------------- gestionar_lista
\* df[df["name"].str.lower().str.contains(busqueda)] if busqueda else df
Filtrar(df, busqueda) ==
    IF Truthy(Lower(busqueda))
    THEN {r \in df : Contains(Lower(r.name), Lower(busqueda))}
    ELSE df

\* The store check without its strip()
ComercioEnBlanco_sinStrip(comercio) == ~Truthy(comercio)

\* not comercio or not comercio.strip()
ComercioEnBlanco(comercio) == ~Truthy(comercio) \/ ~Truthy(Strip(comercio))

\* not nombre.strip()
NombreEnBlanco(nombre) == ~Truthy(Strip(nombre))

\* The try block without its test of the sign
ParsePrecio_sinSigno(precio_str) ==
    IF ~Truthy(precio_str) \/ Strip(precio_str) = <<>>
    THEN [ok |-> FALSE, val |-> 0, msgs |-> {}]
    ELSE LET f == ParseFloat(ReplaceComma(precio_str))
         IN  IF ~f.ok
             THEN [ok |-> FALSE, val |-> 0, msgs |-> {"error_precio_formato"}]
             ELSE [ok |-> TRUE, val |-> f.val, msgs |-> {}]

\* The try block that turns precio_str into precio (None: ok = FALSE)
ParsePrecio(precio_str) ==
    IF ~Truthy(precio_str) \/ Strip(precio_str) = <<>>
    THEN [ok |-> FALSE, val |-> 0, msgs |-> {}]
    ELSE LET f == ParseFloat(ReplaceComma(precio_str))
         IN  IF ~f.ok
             THEN [ok |-> FALSE, val |-> 0, msgs |-> {"error_precio_formato"}]
             ELSE IF f.val < 0
             THEN [ok |-> FALSE, val |-> 0, msgs |-> {"error_precio_negativo"}]
             ELSE [ok |-> TRUE, val |-> f.val, msgs |-> {}]

Digito(n) == CHOOSE c \in DOMAIN DigitVal : DigitVal[c] = n

\* seleccion.split(" ")[2] of an edit option "<pencil> ID <id>: <name>"
TercerToken(id) == <<Digito(id), ":">>

\* int(token), 0 standing for the ValueError the bare except swallows
ParseInt(token) ==
    IF token # <<>> /\ IsDigits(token) THEN DigitsValue(token) ELSE 0

\* id_editar for the chosen option (0: "Nuevo producto"); 0 stands for None
IdEditar(seleccion, productos_previos) ==
    IF seleccion = 0 THEN 0
    ELSE LET id_selec == ParseInt(TercerToken(seleccion))
         IN  IF id_selec # 0 /\ \E r \in productos_previos : r.id = id_selec
             THEN id_selec
             ELSE 0

\* nombre in nombres_previos
NombreRepetido(nombre, productos_previos) ==
    \E r \in productos_previos : r.name = nombre

\* A repeated name that is warned about and stored all the same
AvisoYaExiste_guarda(nombre, cantidad, precio, oferta) ==
    [agregar_producto(nombre, cantidad, precio, oferta, TRUE)
        EXCEPT !.msgs = {"aviso_ya_existe"}]

\* The branch of a repeated name: st.warning, and no write
AvisoYaExiste(nombre, cantidad, precio, oferta) ==
    [lista |-> shopping_list, seq |-> seqLista, clear |-> FALSE,
     msgs |-> {"aviso_ya_existe"}]

\* ------------------------------------------------------------------- steps
Escribir(sl, sh, pd, q1, q2, q3, cl, ch, m, r) ==
    /\ shopping_list' = sl
    /\ shopping_history' = sh
    /\ purchase_details' = pd
    /\ seqLista' = q1
    /\ seqHist' = q2
    /\ seqDet' = q3
    /\ cacheLista' = cl
    /\ cacheHist' = ch
    /\ msgs' = m
    /\ rerun' = r
    /\ UNCHANGED <<evalArgs, evalRet>>

\* A run that changes no table and does not read the clock
SoloLectura(cl, ch, m) ==
    /\ Escribir(shopping_list, shopping_history, purchase_details,
                seqLista, seqHist, seqDet, cl, ch, m, "no")
    /\ hoy' = hoy

\* A run that writes shopping_list; st.rerun() follows
EscribirLista(w, cl, m) ==
    /\ Escribir(w.lista, shopping_history, purchase_details,
                seqLista, seqHist, seqDet,
                TrasClear(w.clear, cl, CacheListaVacio),
                TrasClear(w.clear, cacheHist, CacheHistVacio),
                m, "lista")
    /\ hoy' = hoy

\* A run of the form that gets to st.rerun(): `w` is what its branch wrote
EscribirAlta(w, cl, m) ==
    /\ Escribir(w.lista, shopping_history, purchase_details,
                w.seq, seqHist, seqDet,
                TrasClear(w.clear, cl, CacheListaVacio),
                TrasClear(w.clear, cacheHist, CacheHistVacio),
                m, "lista")
    /\ hoy' = hoy

Ids(df) == {r.id : r \in df}

EvalIdleArgs == [cantidad |-> 1, precio |-> 0, oferta |-> <<>>]

EvalIdleRet == [done |-> FALSE, val |-> 0]

Init ==
    /\ shopping_list = {}
    /\ shopping_history = {}
    /\ purchase_details = {}
    /\ seqLista = 0
    /\ seqHist = 0
    /\ seqDet = 0
    /\ cacheLista = CacheListaVacio
    /\ cacheHist = CacheHistVacio
    /\ msgs = {}
    /\ rerun = "no"
    /\ hoy = 0
    /\ evalArgs = EvalIdleArgs
    /\ evalRet = EvalIdleRet

\* A run of the list page with no button clicked; also the run st.rerun()
\* starts.
VerLista ==
    /\ rerun \in {"no", "lista"}
    /\ \E lec1 \in Lecturas(cacheLista) :
       \E lec2 \in SegundasLecturas(cacheLista, lec1) :
          LET r1 == obtener_lista(cacheLista, lec1)
              r2 == obtener_lista(r1.cache, lec2)
          IN  SoloLectura(r2.cache, cacheHist, r1.msgs \cup r2.msgs)

\* Button "Eliminar"
Eliminar ==
    /\ rerun = "no"
    /\ \E lec1 \in Lecturas(cacheLista), id_borrar \in 1..(MaxItems + 1) :
          LET r1 == obtener_lista(cacheLista, lec1)
          IN  /\ r1.df # {}
              /\ IF id_borrar \in Ids(r1.df)
                 THEN \E ok \in BOOLEAN :
                         LET e == eliminar_producto(id_borrar, ok)
                         IN  EscribirLista(e, r1.cache,
                                 r1.msgs \cup e.msgs \cup {"ok_eliminar"})
                 ELSE \E lec2 \in SegundasLecturas(cacheLista, lec1) :
                         LET r2 == obtener_lista(r1.cache, lec2)
                         IN  SoloLectura(r2.cache, cacheHist,
                                 r1.msgs \cup r2.msgs \cup {"error_id"})

\* Button "Vaciar todo"
VaciarTodo ==
    /\ rerun = "no"
    /\ \E lec1 \in Lecturas(cacheLista), ok \in BOOLEAN :
          LET r1 == obtener_lista(cacheLista, lec1)
              b == borrar_lista(ok)
          IN  /\ r1.df # {}
              /\ EscribirLista(b, r1.cache,
                               r1.msgs \cup b.msgs \cup {"ok_vaciar"})

\* Button "Guardar y vaciar lista".  The buttons are reached only when
\* calcular_totales returns: a search text that matches no row makes it
\* assign the frame DataFrame.apply returns for an empty frame to one
\* column, which raises and ends the run at line 285.
GuardarYVaciar ==
    /\ rerun = "no"
    /\ \E lec1 \in Lecturas(cacheLista), busqueda \in BusquedaInputs,
          comercio \in ComercioInputs :
          LET r1 == obtener_lista(cacheLista, lec1)
              df_filtrado == Filtrar(r1.df, busqueda)
              total == calcular_totales(df_filtrado)
          IN  /\ r1.df # {}
              /\ df_filtrado # {}
              /\ IF ComercioEnBlanco(comercio)
                 THEN \E lec2 \in SegundasLecturas(cacheLista, lec1) :
                         LET r2 == obtener_lista(r1.cache, lec2)
                         IN  SoloLectura(r2.cache, cacheHist,
                                 r1.msgs \cup r2.msgs \cup {"error_comercio"})
                 ELSE /\ seqHist < MaxCompras
                      /\ \E fallo \in FallosTx, fecha \in hoy..MaxDia :
                         \E lec2 \in SegundasLecturas(cacheLista, lec1),
                            okBorrar \in BOOLEAN :
                            LET g == guardar_historial(fecha, total,
                                         Strip(comercio), r1.cache, lec2, fallo,
                                         okBorrar)
                            IN  /\ fallo = "insert_history"
                                      => lec2 = Lectura(FALSE, TRUE)
                                /\ fallo = "insert_details" => lec2.ok
                                /\ fallo # "ninguno" => okBorrar
                                /\ Escribir(g.lista, g.historial, g.detalles,
                                            seqLista, g.seqHist, g.seqDet,
                                            g.cacheLista, g.cacheHist,
                                            r1.msgs \cup g.msgs, g.rerun)
                                /\ hoy' = fecha

\* Form button "Guardar producto", the form filled in with one of `inputs`
EnviarFormulario(inputs) ==
    /\ rerun = "no"
    /\ \E lec1 \in Lecturas(cacheLista) :
       \E lec2 \in SegundasLecturas(cacheLista, lec1) :
          LET r1 == obtener_lista(cacheLista, lec1)
              r2 == obtener_lista(r1.cache, lec2)
              productos_previos == r2.df
              leidos == r1.msgs \cup r2.msgs
          IN  \E f \in inputs :
                 LET nombre == f.nombre
                     cantidad == f.cantidad
                     oferta == f.oferta
                     precio == ParsePrecio(f.precio_str)
                 IN  IF NombreEnBlanco(nombre)
                     THEN SoloLectura(r2.cache, cacheHist,
                              leidos \cup precio.msgs \cup {"error_nombre"})
                     ELSE IF ~precio.ok
                     THEN SoloLectura(r2.cache, cacheHist,
                              leidos \cup precio.msgs \cup {"error_precio"})
                     ELSE \E seleccion \in {0} \cup Ids(productos_previos) :
                          LET id_editar == IdEditar(seleccion, productos_previos)
                          IN
                          IF id_editar # 0
                          THEN \E ok \in BOOLEAN :
                               LET m == modificar_producto(id_editar, nombre,
                                            cantidad, precio.val, oferta, ok)
                               IN  EscribirLista(m, r2.cache,
                                       leidos \cup m.msgs
                                              \cup {"ok_actualizado"})
                          ELSE IF NombreRepetido(nombre, productos_previos)
                          THEN LET w == AvisoYaExiste(nombre, cantidad,
                                            precio.val, oferta)
                               IN  /\ w.seq <= MaxItems
                                   /\ EscribirAlta(w, r2.cache,
                                                   leidos \cup w.msgs)
                          ELSE /\ seqLista < MaxItems
                               /\ \E ok \in BOOLEAN :
                                  LET a == agregar_producto(nombre, cantidad,
                                               precio.val, oferta, ok)
                                  IN  EscribirAlta(a, r2.cache,
                                          leidos \cup a.msgs
                                                 \cup {"ok_agregado"})

GuardarProducto == EnviarFormulario(FormInputs)

\* ---------------------------------------------------------- mostrar_resumen
\* A run of the summary page with no button clicked; also the run st.rerun()
\* starts after the wipe.
VerResumen ==
    /\ rerun \in {"no", "resumen"}
    /\ \E lec \in Lecturas(cacheHist) :
          LET r == obtener_historial(cacheHist, lec)
          IN  SoloLectura(cacheLista, r.cache, r.msgs)

\* Button "Limpiar Base de Datos Completa", rendered below a non-empty summary
LimpiarBase ==
    /\ rerun = "no"
    /\ \E lec \in Lecturas(cacheHist), ok \in BOOLEAN :
          LET r == obtener_historial(cacheHist, lec)
              l == limpiar_base_de_datos(ok)
          IN  /\ ~obtener_resumen_gastos(r.df).none
              /\ Escribir(l.lista, l.historial, l.detalles,
                          seqLista, seqHist, seqDet,
                          TrasClear(l.clear, cacheLista, CacheListaVacio),
                          TrasClear(l.clear, r.cache, CacheHistVacio),
                          r.msgs \cup l.msgs, l.rerun)
              /\ hoy' = hoy

\* ------------------------------------------------------------ ver_historial
\* A run of the history page; compra_id = 0 stands for no click on
\* "Mostrar detalle", which a non-empty history offers.
VerHistorial ==
    /\ rerun = "no"
    /\ \E lec \in Lecturas(cacheHist), compra_id \in 0..(MaxCompras + 1),
          ok \in BOOLEAN :
          LET r == obtener_historial(cacheHist, lec)
              detalle == obtener_detalle_compra(compra_id, ok)
          IN  /\ compra_id # 0 => r.df # <<>>
              /\ compra_id = 0 => ok
              /\ SoloLectura(cacheLista, r.cache,
                     r.msgs \cup (IF ok THEN {} ELSE {"error_cargar_detalle"}))

Next ==
    \/ VerLista
    \/ Eliminar
    \/ VaciarTodo
    \/ GuardarYVaciar
    \/ GuardarProducto
    \/ VerResumen
    \/ LimpiarBase
    \/ VerHistorial

Spec == Init /\ [][Next]_vars

\* ------------------------------------------- calcular_subtotal on its own
EvalPrecios == {0, 1, 250, 1000}

EvalOfertas ==
    { None, <<>>, <<"2", "x", "1">>, <<" ", "2", "x", "1", " ">>,
      <<"0", ".", "1", "0">>, <<"x">> }

InitEval ==
    /\ shopping_list = {}
    /\ shopping_history = {}
    /\ purchase_details = {}
    /\ seqLista = 0
    /\ seqHist = 0
    /\ seqDet = 0
    /\ cacheLista = CacheListaVacio
    /\ cacheHist = CacheHistVacio
    /\ msgs = {}
    /\ rerun = "no"
    /\ hoy = 0
    /\ evalArgs \in [cantidad : 1..MaxCantidadEval, precio : EvalPrecios,
                     oferta : EvalOfertas]
    /\ evalRet = EvalIdleRet

Evaluar ==
    /\ ~evalRet.done
    /\ evalRet' = [done |-> TRUE,
                   val |-> calcular_subtotal(evalArgs.cantidad, evalArgs.precio,
                                             evalArgs.oferta)]
    /\ UNCHANGED <<db, seqs, cacheLista, cacheHist, msgs, rerun, hoy, evalArgs>>

NextEval == Evaluar

SpecEval == InitEval /\ [][NextEval]_vars

\* ------------------------------------------------------------- properties
\* The columns the checkout copies from an item to a line item
SinId(r) == <<r.name, r.quantity, r.price, r.offer>>

\* The history row and the detail rows a step has added
ComprasNuevas == shopping_history' \ shopping_history

DetallesNuevos == purchase_details' \ purchase_details

\* The step archives the whole list as one purchase and empties the list
ArchivaTodo ==
    /\ shopping_list # {}
    /\ shopping_list' = {}
    /\ shopping_history \subseteq shopping_history'
    /\ purchase_details \subseteq purchase_details'
    /\ Cardinality(ComprasNuevas) = 1
    /\ \A h \in ComprasNuevas : \A d \in DetallesNuevos : d.purchase_id = h.id
    /\ Cardinality(DetallesNuevos) = Cardinality(shopping_list)
    /\ \E f \in [shopping_list -> DetallesNuevos] :
          /\ \A x, y \in shopping_list : f[x] = f[y] => x = y
          /\ \A x \in shopping_list : SinId(f[x]) = SinId(x)

\* The step is a run of the checkout that got as far as guardar_historial
EsCheckout == "ok_guardar" \in msgs' \/ "error_guardar_historial" \in msgs'

\* C1: a checkout either archives the whole list as one purchase and empties
\* the list, or leaves the list, the history and the details as they were.
C1_TodoONada ==
    [][EsCheckout => (ArchivaTodo \/ (db' = db))]_vars

\* C2: the stored total of every purchase that has line items equals the sum
\* of the subtotals of its line items (the purchases a failed read of the list
\* archives without line items are left to C5 and C16).
C2_TotalesCuadran ==
    \A h \in shopping_history :
        obtener_detalle_compra(h.id, TRUE) # {}
            => calcular_totales(obtener_detalle_compra(h.id, TRUE)) = h.total

\* C3: a checkout that reports success and no error creates exactly one
\* purchase, copies each of the n >= 1 items of the list into one line item of
\* that purchase with the same name, quantity, price and offer, and leaves the
\* list empty.
C3_CheckoutCopiaTodo ==
    [][msgs' = {"ok_guardar"} => ArchivaTodo]_vars

C3_Witness ==
    /\ msgs = {"ok_guardar"}
    /\ shopping_list = {}
    /\ \E h \in shopping_history :
          /\ Cardinality(obtener_detalle_compra(h.id, TRUE)) = 2
          /\ \E d \in obtener_detalle_compra(h.id, TRUE) :
                d.offer = <<"2", "x", "1">>

\* Every archived purchase and its line items are the same after the step
ArchivoIntacto ==
    \A h \in shopping_history :
        /\ h \in shopping_history'
        /\ (obtener_detalle_compra(h.id, TRUE))'
               = obtener_detalle_compra(h.id, TRUE)

\* C4 as stated: no step of the program changes or deletes an archived
\* purchase or one of its line items.
C4_ArchivoInmutable ==
    [][ArchivoIntacto]_vars

\* C4: no step other than the wipe of the database (limpiar_base_de_datos)
\* changes or deletes an archived purchase or one of its line items.
C4_ArchivoInmutableSalvoLimpieza ==
    [][("ok_limpiar" \notin msgs') => ArchivoIntacto]_vars

C4_Witness ==
    /\ Cardinality(shopping_history) = 2
    /\ \A h \in shopping_history : obtener_detalle_compra(h.id, TRUE) # {}
    /\ msgs = {"ok_guardar"}

\* C5: no purchase without line items exists.
C5_SinCompraVacia ==
    \A h \in shopping_history : obtener_detalle_compra(h.id, TRUE) # {}

\* C6: a checkout with a blank or whitespace-only store is rejected and leaves
\* the list, the history and the details as they were; every archived store
\* name is non-empty and trimmed.
C6_ComercioNoEnBlanco ==
    /\ [](\A h \in shopping_history :
              h.store # <<>> /\ Strip(h.store) = h.store)
    /\ [][("error_comercio" \in msgs') => (db' = db /\ seqs' = seqs)]_vars

C6_Witness ==
    /\ "error_comercio" \in msgs
    /\ shopping_list # {}
    /\ \E h \in shopping_history : h.store = <<"m">>

\* C7: a step that changes the list, the history or the details leaves no
\* cached result behind, so the next read whose query works returns what is
\* stored.
C7_SinLecturasViejas ==
    [][(db' # db) =>
          /\ cacheLista' = CacheListaVacio
          /\ cacheHist' = CacheHistVacio
          /\ (obtener_lista(cacheLista, Lectura(FALSE, TRUE)).df)'
                 = shopping_list'
          /\ (obtener_historial(cacheHist, Lectura(FALSE, TRUE)).df)'
                 = (OrdenarHistorial(shopping_history))']_vars

C7_Witness ==
    /\ msgs = {"ok_agregado"}
    /\ Cardinality(shopping_list) = 2
    /\ ~cacheLista.valid

\* C8: every item of the list has a non-empty name, a quantity of at least 1
\* and a price of at least 0; a submission with a blank name or a negative
\* price is rejected and leaves the list as it was.
C8_ItemsValidos ==
    /\ [](\A r \in shopping_list :
              r.name # <<>> /\ r.quantity >= 1 /\ r.price >= 0)
    /\ [][("error_nombre" \in msgs' \/ "error_precio" \in msgs')
             => (db' = db /\ seqs' = seqs)]_vars

C8_Witness ==
    /\ "error_precio_negativo" \in msgs
    /\ shopping_list # {}

\* C9 as stated: an add that is warned about because its name is already in
\* the list is persisted as a new item all the same.
C9_AvisoYGuarda ==
    [][("aviso_ya_existe" \in msgs')
          => Cardinality(shopping_list') = Cardinality(shopping_list) + 1]_vars

\* C9: an add that is warned about because its name is already in the list is
\* refused: the list, the history and the details stay as they were.
C9_AvisoRechaza ==
    [][("aviso_ya_existe" \in msgs') => (db' = db /\ seqs' = seqs)]_vars

\* Two items of the same name in the list, and the warning on a third try
C9_Witness ==
    /\ "aviso_ya_existe" \in msgs
    /\ \E r1, r2 \in shopping_list : r1.id # r2.id /\ r1.name = r2.name

\* ceil(q / 2)
MitadArriba(q) == CHOOSE n \in 0..q : 2 * n >= q /\ 2 * n < q + 2

\* C10: for q >= 1 and p >= 0, calcular_subtotal charges ceil(q / 2) * p under
\* the rule "2x1" and q * p under an empty or absent rule.
C10_Subtotal2x1 ==
    evalRet.done =>
        /\ evalArgs.oferta = <<"2", "x", "1">>
              => evalRet.val
                     = MitadArriba(evalArgs.cantidad) * evalArgs.precio * 100
        /\ evalArgs.oferta \in {None, <<>>}
              => evalRet.val = evalArgs.cantidad * evalArgs.precio * 100

C10_Witness ==
    /\ evalRet.done
    /\ evalArgs = [cantidad |-> 5, precio |-> 1000,
                   oferta |-> <<"2", "x", "1">>]
    /\ evalRet.val = 3 * 1000 * 100

\* The ids a remove or an update can name that are not in the list
IdsAusentes == (1..(MaxItems + 1)) \ Ids(shopping_list)

\* The remove half of C11: a run that reports "ID no encontrado" changes no
\* table, and a remove that reports success and no error takes one item out
\* and leaves the others as they were.
C11_EliminarDesconocido ==
    [][/\ ("error_id" \in msgs') => (db' = db /\ seqs' = seqs)
       /\ (msgs' = {"ok_eliminar"}) =>
             /\ shopping_list' \subseteq shopping_list
             /\ Cardinality(shopping_list')
                    = Cardinality(shopping_list) - 1]_vars

\* C11: a remove or an update that names an id not in the list is reported as
\* not found and leaves the list as it was.
C11_NoEncontrado ==
    /\ [](\A id \in IdsAusentes :
             LET m == modificar_producto(id, <<"a">>, 1, 250, <<>>, TRUE)
             IN  m.lista = shopping_list /\ "error_id" \in m.msgs)
    /\ C11_EliminarDesconocido

\* ------------------------------------------- the history across two days
\* The program one day before the last day of the model (day MaxDia - 1),
\* with one item in the list and either nothing archived yet or one purchase
\* archived that day.
ItemHist ==
    [id |-> 1, name |-> <<"a">>, quantity |-> 1, price |-> 250,
     offer |-> None]

CompraAyer ==
    [id |-> 1, date |-> MaxDia - 1, store |-> <<"m">>, total |-> 25000]

DetalleAyer ==
    [id |-> 1, purchase_id |-> 1, name |-> <<"a">>, quantity |-> 1,
     price |-> 250, offer |-> None]

InitHist ==
    /\ shopping_list = {ItemHist}
    /\ seqLista = 1
    /\ \/ /\ shopping_history = {}
          /\ purchase_details = {}
          /\ seqHist = 0
          /\ seqDet = 0
       \/ /\ shopping_history = {CompraAyer}
          /\ purchase_details = {DetalleAyer}
          /\ seqHist = 1
          /\ seqDet = 1
    /\ cacheLista = CacheListaVacio
    /\ cacheHist = CacheHistVacio
    /\ msgs = {}
    /\ rerun = "no"
    /\ hoy = MaxDia - 1
    /\ evalArgs = EvalIdleArgs
    /\ evalRet = EvalIdleRet

NextHist ==
    \/ VerLista
    \/ GuardarYVaciar
    \/ VerResumen
    \/ VerHistorial

SpecHist == InitHist /\ [][NextHist]_vars

\* C12: the history is listed by date descending and, within one date, by id
\* descending; every new purchase gets an id above every archived one, so of
\* two purchases of one date the one archived later is listed first.
C12_HistorialOrdenado ==
    /\ [](cacheHist.valid =>
             \A i, j \in DOMAIN cacheHist.df :
                 i < j =>
                    \/ cacheHist.df[i].date > cacheHist.df[j].date
                    \/ /\ cacheHist.df[i].date = cacheHist.df[j].date
                       /\ cacheHist.df[i].id > cacheHist.df[j].id)
    /\ [][\A h \in ComprasNuevas :
             \A g \in shopping_history : h.id > g.id]_vars

\* Two purchases of one date listed
C12_Witness ==
    /\ cacheHist.valid
    /\ Len(cacheHist.df) = 2
    /\ cacheHist.df[1].date = cacheHist.df[2].date
    /\ cacheHist.df[1].id = 2

\* The sum of the totals of a set of purchases
RECURSIVE SumaTotales(_)
SumaTotales(compras) ==
    IF compras = {} THEN 0
    ELSE LET h == CHOOSE x \in compras : TRUE
         IN  h.total + SumaTotales(compras \ {h})

\* C13: the summary of the history, read with a query that works, is a value,
\* not None; with no purchase its total and its average are 0, and with
\* n >= 1 purchases its total is the sum of their totals and its average that
\* sum divided by n.
C13_ResumenDefinido ==
    \A lec \in Lecturas(cacheHist) :
        lec.ok =>
           LET df_hist == obtener_historial(cacheHist, lec).df
               r == obtener_resumen_gastos(df_hist)
               n == Cardinality(shopping_history)
           IN  /\ ~r.none
               /\ r.total_gastado = SumaTotales(shopping_history)
               /\ r.promedio.num * (IF n = 0 THEN 1 ELSE n)
                     = SumaTotales(shopping_history) * r.promedio.den

\* ------------------------------------------- offers that are discount rates
GuardarConDescuento == EnviarFormulario(OfertaInputs)

NextOfertas ==
    \/ VerLista
    \/ GuardarConDescuento
    \/ GuardarYVaciar

SpecOfertas == Init /\ [][NextOfertas]_vars

\* C14: the stored total of every archived purchase is at least 0.
C14_TotalNoNegativo ==
    \A h \in shopping_history : h.total >= 0

\* C15: every line item belongs to exactly one archived purchase, and a
\* purchase id is never given out twice: every new purchase gets an id above
\* every id given out before, wiped or not.
C15_IntegridadReferencial ==
    /\ [](\A d \in purchase_details :
             Cardinality({h \in shopping_history : h.id = d.purchase_id}) = 1)
    /\ [](\A h \in shopping_history : h.id <= seqHist)
    /\ [][/\ seqHist' >= seqHist
          /\ \A h \in ComprasNuevas : h.id > seqHist]_vars

\* A purchase archived after the wipe of an earlier one
C15_Witness ==
    /\ \E h \in shopping_history :
          /\ h.id = 2
          /\ obtener_detalle_compra(h.id, TRUE) # {}
    /\ \A h \in shopping_history : h.id # 1

\* C16: every item a checkout takes out of the list is a line item of the
\* purchase that checkout creates.
C16_NadaSePierde ==
    [][EsCheckout =>
          \A x \in shopping_list \ shopping_list' :
              \E h \in ComprasNuevas :
                  \E d \in DetallesNuevos :
                      d.purchase_id = h.id /\ SinId(d) = SinId(x)]_vars

\* C17: a run that reports the success of an add, a remove, a clear or a
\* checkout has committed it: the list has one item more, one item less, is
\* empty, or is empty with one purchase more.
C17_ExitoSoloSiConfirmado ==
    [][/\ ("ok_agregado" \in msgs') =>
             Cardinality(shopping_list') = Cardinality(shopping_list) + 1
       /\ ("ok_eliminar" \in msgs') =>
             Cardinality(shopping_list') = Cardinality(shopping_list) - 1
       /\ ("ok_vaciar" \in msgs') => shopping_list' = {}
       /\ ("ok_guardar" \in msgs') =>
             (shopping_list' = {} /\ Cardinality(ComprasNuevas) = 1)]_vars

\* C18: a cached result of obtener_lista or obtener_historial is what the
\* table holds.
C18_CacheEsLoLeido ==
    /\ cacheLista.valid => cacheLista.df = shopping_list
    /\ cacheHist.valid => cacheHist.df = OrdenarHistorial(shopping_history)

====
